---- MODULE Spec2Model ----
(***************************************************************************)
(* Model of the disk / partition discovery and disklabel classification   *)
(* code of patagonicus (src/src/disks.rs).                                 *)
(*                                                                         *)
(* Text (file names, attribute contents, link targets) is a sequence of    *)
(* one-character strings, so that trim, parse, starts_with and contains    *)
(* are computed the way the standard library computes them.                *)
(* u64 / u32 values are scaled to WordBits / WordBits \div 2 bits: TLC's   *)
(* integers are 32 bits wide, and the products the code forms must fit.    *)
(***************************************************************************)
EXTENDS Integers, Sequences, FiniteSets, TLC

(***************************************************************************)
(* Bounds of the model.                                                    *)
(***************************************************************************)
WordBits == 16
MaxHostChanges == 1

U64Max == 2^WordBits - 1
U64Mod == 2^WordBits
U32Max == 2^(WordBits \div 2) - 1

(***************************************************************************)
(* Text helpers.                                                           *)
(***************************************************************************)
IsWs(c) == c \in {" ", "\n", "\t"}

IsDigit(c) == c \in {"0", "1", "2", "3", "4", "5", "6", "7", "8", "9"}

DigitVal(c) ==
    CASE c = "0" -> 0 [] c = "1" -> 1 [] c = "2" -> 2 [] c = "3" -> 3
      [] c = "4" -> 4 [] c = "5" -> 5 [] c = "6" -> 6 [] c = "7" -> 7
      [] c = "8" -> 8 [] c = "9" -> 9

RECURSIVE TrimStart(_)
TrimStart(s) ==
    IF s = <<>> THEN s
    ELSE IF IsWs(Head(s)) THEN TrimStart(Tail(s)) ELSE s

RECURSIVE TrimEnd(_)
TrimEnd(s) ==
    IF s = <<>> THEN s
    ELSE IF IsWs(s[Len(s)]) THEN TrimEnd(SubSeq(s, 1, Len(s) - 1)) ELSE s

\* str::trim
Trim(s) == TrimEnd(TrimStart(s))

\* str::starts_with
StartsWith(s, p) == Len(p) <= Len(s) /\ SubSeq(s, 1, Len(p)) = p

\* str::contains
Contains(s, p) ==
    \E i \in 0..(Len(s) - Len(p)) : SubSeq(s, i + 1, i + Len(p)) = p

\* Result values of the code: Ok(v), Err(kind); a panic is not a value, it is
\* an outcome of the call.
Ok(v) == [kind |-> "Ok", val |-> v]
Err(e) == [kind |-> "Err", err |-> e]
Panic(site) == [kind |-> "Panic", site |-> site]

IsOk(r) == r.kind = "Ok"
IsErr(r) == r.kind = "Err"
IsPanic(r) == r.kind = "Panic"

\* Option values.
Some(v) == [some |-> TRUE, val |-> v]
None == [some |-> FALSE]

\* str::parse::<uN>: an optional '+', then one or more decimal digits, the
\* value at most max; anything else is a ParseIntError.
RECURSIVE ParseDigits(_, _, _)
ParseDigits(s, acc, max) ==
    IF s = <<>> THEN Ok(acc)
    ELSE IF ~IsDigit(Head(s)) THEN Err("InvalidDigit")
    ELSE LET next == acc * 10 + DigitVal(Head(s))
         IN  IF next > max THEN Err("PosOverflow")
             ELSE ParseDigits(Tail(s), next, max)

ParseUnsigned(s, max) ==
    LET t == IF s # <<>> /\ Head(s) = "+" THEN Tail(s) ELSE s
    IN  IF t = <<>> THEN Err("Empty") ELSE ParseDigits(t, 0, max)

(***************************************************************************)
(* Files of the host.  A file is missing, present but not openable,        *)
(* openable but failing on read, or readable with some text.               *)
(***************************************************************************)
File(text) == [state |-> "ok", text |-> text]
MissingFile == [state |-> "missing", text |-> <<>>]
NoPermFile == [state |-> "noperm", text |-> <<>>]
IoErrFile == [state |-> "ioerr", text |-> <<>>]

\* fs::read_to_string
ReadToString(f) == IF f.state = "ok" THEN Ok(f.text) ELSE Err(f.state)

(***************************************************************************)
(* u64 arithmetic.  An overflowing +, - or * panics when the build has     *)
(* overflow checks (debug profile) and wraps when it has none (release).   *)
(***************************************************************************)
MulU64(a, b, checks) ==
    IF a * b > U64Max
    THEN IF checks THEN Panic("attempt to multiply with overflow")
         ELSE Ok((a * b) % U64Mod)
    ELSE Ok(a * b)

AddU64(a, b, checks) ==
    IF a + b > U64Max
    THEN IF checks THEN Panic("attempt to add with overflow")
         ELSE Ok((a + b) % U64Mod)
    ELSE Ok(a + b)

SubU64(a, b, checks) ==
    IF a - b < 0
    THEN IF checks THEN Panic("attempt to subtract with overflow")
         ELSE Ok((a - b) % U64Mod)
    ELSE Ok(a - b)

(***************************************************************************)
(* The raw device /dev/<name>.  An image gives the bytes the classifier    *)
(* looks at; every other byte of the device is zero.                       *)
(***************************************************************************)
SectorLen == 512
SigOffset0 == 510
SigOffset1 == 511
TypeOffset == 450
GptOffset == 512
GptSigLen == 8
SigByte0 == 85
SigByte1 == 170
ProtectiveType == 238

\* b"EFI PART"
EFI_PART == [k \in 0..(GptSigLen - 1) |-> <<69, 70, 73, 32, 80, 65, 82, 84>>[k + 1]]

ByteAt(img, i) ==
    IF i = TypeOffset THEN img.type
    ELSE IF i = SigOffset0 THEN img.sig0
    ELSE IF i = SigOffset1 THEN img.sig1
    ELSE IF i >= GptOffset /\ i < GptOffset + GptSigLen THEN img.hdr[i - GptOffset]
    ELSE 0

\* Read::read_exact at position pos: all n bytes, or UnexpectedEof.
ReadExact(img, pos, n) ==
    IF pos + n <= img.len
    THEN Ok([k \in 0..(n - 1) |-> ByteAt(img, pos + k)])
    ELSE Err("UnexpectedEof")

DiskLabelMutSigAnd(img) ==
    IF ~img.openable THEN Panic("Unable to open file") @@ [ops |-> <<"open">>]
    ELSE LET first == ReadExact(img, 0, SectorLen)
         IN  IF IsErr(first)
             THEN Panic("Unable to read Disk data") @@ [ops |-> <<"open", "read512">>]
             ELSE LET mbr == first.val
                  IN  IF mbr[SigOffset0] # SigByte0 /\ mbr[SigOffset1] # SigByte1
                      THEN Err("InvalidData") @@ [ops |-> <<"open", "read512">>]
                      ELSE Ok("MBR") @@ [ops |-> <<"open", "read512">>]

DiskLabelMutNoHeaderCheck(img) ==
    IF ~img.openable THEN Panic("Unable to open file") @@ [ops |-> <<"open">>]
    ELSE LET first == ReadExact(img, 0, SectorLen)
         IN  IF IsErr(first)
             THEN Panic("Unable to read Disk data") @@ [ops |-> <<"open", "read512">>]
             ELSE LET mbr == first.val
                  IN  IF mbr[SigOffset0] # SigByte0 \/ mbr[SigOffset1] # SigByte1
                      THEN Err("InvalidData") @@ [ops |-> <<"open", "read512">>]
                      ELSE IF mbr[TypeOffset] = ProtectiveType
                      THEN Ok("GPT") @@ [ops |-> <<"open", "read512">>]
                      ELSE Ok("MBR") @@ [ops |-> <<"open", "read512">>]

DiskLabelMutHeaderFirst(img) ==
    IF ~img.openable THEN Panic("Unable to open file") @@ [ops |-> <<"open">>]
    ELSE LET first == ReadExact(img, 0, SectorLen)
         IN  IF IsErr(first)
             THEN Panic("Unable to read Disk data") @@ [ops |-> <<"open", "read512">>]
             ELSE LET mbr == first.val
                      gpt == ReadExact(img, GptOffset, GptSigLen)
                      all == <<"open", "read512", "seek512", "read8">>
                  IN  IF mbr[TypeOffset] = ProtectiveType /\ img.seekable /\ IsOk(gpt)
                      THEN IF mbr[SigOffset0] # SigByte0 \/ mbr[SigOffset1] # SigByte1
                           THEN Err("InvalidData") @@ [ops |-> all]
                           ELSE IF gpt.val = EFI_PART THEN Ok("GPT") @@ [ops |-> all]
                           ELSE Ok("MBR") @@ [ops |-> all]
                      ELSE IF mbr[SigOffset0] # SigByte0 \/ mbr[SigOffset1] # SigByte1
                      THEN Err("InvalidData") @@ [ops |-> <<"open", "read512">>]
                      ELSE Ok("MBR") @@ [ops |-> <<"open", "read512">>]

\* detect_disklabel on the device whose image is img.  ops lists the file
\* operations the call performed, in order, the failing one included.
DetectDisklabelImage(img) ==
    IF ~img.openable THEN Panic("Unable to open file") @@ [ops |-> <<"open">>]
    ELSE LET first == ReadExact(img, 0, SectorLen)
         IN  IF IsErr(first)
             THEN Panic("Unable to read Disk data") @@ [ops |-> <<"open", "read512">>]
             ELSE LET mbr == first.val
                  IN  IF mbr[SigOffset0] # SigByte0 \/ mbr[SigOffset1] # SigByte1
                      THEN Err("InvalidData") @@ [ops |-> <<"open", "read512">>]
                      ELSE IF mbr[TypeOffset] = ProtectiveType
                      THEN IF ~img.seekable
                           THEN Panic("Unable to do direct seek on mbr")
                                    @@ [ops |-> <<"open", "read512", "seek512">>]
                           ELSE LET gpt == ReadExact(img, GptOffset, GptSigLen)
                                    all == <<"open", "read512", "seek512", "read8">>
                                IN  IF IsErr(gpt)
                                    THEN Panic("Unable to read exact bytes") @@ [ops |-> all]
                                    ELSE IF gpt.val = EFI_PART
                                    THEN Ok("GPT") @@ [ops |-> all]
                                    ELSE Ok("MBR") @@ [ops |-> all]
                      ELSE Ok("MBR") @@ [ops |-> <<"open", "read512">>]

\* detect_disklabel(device)
detect_disklabel(h, device) == DetectDisklabelImage(h.dev[device].image)

(***************************************************************************)
(* Geometry Reader.                                                        *)
(***************************************************************************)
DefaultSectorSize == 512

\* get_sector_size(device)
get_sector_size(h, device) ==
    LET r == ReadToString(h.dev[device].lbs)
    IN  IF IsErr(r) THEN Panic("Unable to read file content")
        ELSE LET p == ParseUnsigned(Trim(r.val), U64Max)
             IN  IF IsErr(p) THEN Err("InvalidData") ELSE Ok(p.val)

\* read_capacity(device)
read_capacity(h, device, checks) ==
    LET ss == get_sector_size(h, device)
    IN  IF IsPanic(ss) THEN ss
        ELSE LET sector_size == IF IsOk(ss) THEN ss.val ELSE DefaultSectorSize
                 r == ReadToString(h.dev[device].size)
             IN  IF IsErr(r) THEN Panic("Unable to open path")
                 ELSE LET p == ParseUnsigned(Trim(r.val), U64Max)
                      IN  IF IsErr(p) THEN Panic("Unable to parse capacity")
                          ELSE MulU64(p.val, sector_size, checks)

\* get_io_size(device)
get_io_size(h, device) ==
    LET r == ReadToString(h.dev[device].io)
    IN  IF IsErr(r) THEN Panic("Unable to read contents of")
        ELSE LET p == ParseUnsigned(Trim(r.val), U32Max)
             IN  IF IsErr(p) THEN Err("InvalidData") ELSE Ok(p.val)

\* get_device_model(device)
get_device_model(h, device) ==
    LET r == ReadToString(h.dev[device].model)
    IN  IF IsErr(r) THEN Panic("Unable to read contents of") ELSE Ok(Trim(r.val))

(***************************************************************************)
(* Identity Resolver.  A symlink directory is absent, unreadable, or a     *)
(* listing of entries; an entry has a name, may fail to be a UTF-8 name,   *)
(* and is a link with a target or not a link at all.                       *)
(***************************************************************************)
NoDir == [exists |-> FALSE, readable |-> FALSE, entries |-> <<>>]
UnreadableDir == [exists |-> TRUE, readable |-> FALSE, entries |-> <<>>]
Dir(entries) == [exists |-> TRUE, readable |-> TRUE, entries |-> entries]

Link(name, target) == [name |-> name, utf8 |-> TRUE, isLink |-> TRUE, target |-> target]

\* The loop of get_uuid_from_dir over the entries that remain.
RECURSIVE ScanEntries(_, _)
ScanEntries(entries, device) ==
    IF entries = <<>> THEN Ok(None)
    ELSE LET entry == Head(entries)
         IN  IF ~entry.isLink THEN Panic("Unable to read link")
             ELSE IF Contains(entry.target, device) /\ entry.utf8
             THEN Ok(Some(entry.name))
             ELSE ScanEntries(Tail(entries), device)

\* get_uuid_from_dir(path, device), dir being the directory at path
get_uuid_from_dir(dir, device) ==
    IF dir.exists
    THEN IF ~dir.readable THEN Panic("Unable to read UUID Path")
         ELSE ScanEntries(dir.entries, device)
    ELSE Ok(None)

\* uuid.split('-').last(): the text after the last hyphen, all of it when
\* there is none.
RECURSIVE SplitLast(_, _)
SplitLast(s, sep) ==
    IF \A i \in 1..Len(s) : s[i] # sep THEN s
    ELSE SplitLast(Tail(s), sep)

\* get_device_uuid(device)
get_device_uuid(h, device) ==
    LET byId == get_uuid_from_dir(h.byId, device)
    IN  IF IsPanic(byId) THEN byId
        ELSE IF byId.val.some THEN Ok(SplitLast(byId.val.val, "-"))
        ELSE LET byUuid == get_uuid_from_dir(h.byUuid, device)
             IN  IF IsPanic(byUuid) THEN byUuid
                 ELSE IF byUuid.val.some THEN Ok(byUuid.val.val)
                 ELSE Err("NotFound")

(***************************************************************************)
(* Enumeration.                                                            *)
(***************************************************************************)
loop == <<"l", "o", "o", "p">>

GetBlockDevicesMutNoFilter(h) ==
    IF h.sysBlock.readable THEN h.sysBlock.entries ELSE <<>>

\* get_block_devices()
get_block_devices(h) ==
    LET NotLoop(name) == ~StartsWith(name, loop)
    IN  IF h.sysBlock.readable THEN SelectSeq(h.sysBlock.entries, NotLoop) ELSE <<>>

\* get_partitions(device_name)
get_partitions(h, device_name) ==
    LET IsChild(name) == name # device_name /\ StartsWith(name, device_name)
        d == h.dev[device_name]
    IN  IF ~d.isDir THEN <<>>
        ELSE IF ~d.readable THEN <<>>
        ELSE SelectSeq(d.entries, IsChild)

(***************************************************************************)
(* Partition geometry and type.                                            *)
(***************************************************************************)
\* get_partition_sectors(device, partition): (sectors, start, end)
get_partition_sectors(h, device, partition, checks) ==
    LET pt == h.part[partition]
    IN  IF ~pt.isDir THEN Err("NotFound")
        ELSE LET rs == ReadToString(pt.start)
             IN  IF IsErr(rs) THEN Panic("Unable to get partition sectors for")
                 ELSE LET ps == ParseUnsigned(Trim(rs.val), U64Max)
                      IN  IF IsErr(ps) THEN Panic("Unable to fetch sector start")
                          ELSE LET rz == ReadToString(pt.size)
                               IN  IF IsErr(rz) THEN Panic("Unable to get sector size for")
                                   ELSE LET pz == ParseUnsigned(Trim(rz.val), U64Max)
                                        IN  IF IsErr(pz) THEN Panic("Unable to fetch sector size")
                                            ELSE LET sum == AddU64(ps.val, pz.val, checks)
                                                 IN  IF IsPanic(sum) THEN sum
                                                     ELSE LET end == SubU64(sum.val, 1, checks)
                                                          IN  IF IsPanic(end) THEN end
                                                              ELSE Ok([sectors |-> pz.val,
                                                                       start |-> ps.val,
                                                                       end |-> end.val])

\* get_partition_type(device), device being a partition name
get_partition_type(h, device) ==
    LET f == h.part[device].partition
    IN  IF f.state = "missing" THEN Err("NotFound")
        ELSE IF f.state = "noperm" THEN Err("NotFound")
        ELSE IF f.state = "ioerr" THEN Err("Other")
        ELSE IF f.text = <<>> THEN Err("Other")
        ELSE Ok(Some(Trim(f.text)))

UuidNotFoundText == "UUID not found for partition: "
UnknownPartitionType == <<"Unknown partition type.">>

\* Partition::new(device, part)
PartitionNew(h, device, part, checks) ==
    IF ~h.part[part].isDir THEN Err("NotFound")
    ELSE LET u == get_uuid_from_dir(h.byUuid, part)
         IN  IF IsPanic(u) THEN u
             ELSE LET uuid == IF u.val.some THEN u.val.val
                              ELSE <<UuidNotFoundText>> \o part
                      t == get_partition_type(h, part)
                  IN  IF IsErr(t) THEN Panic("Unable to get partition type")
                      ELSE LET part_type == IF t.val.some THEN t.val.val
                                            ELSE UnknownPartitionType
                               g == get_partition_sectors(h, device, part, checks)
                           IN  IF IsPanic(g) THEN g
                               ELSE IF IsErr(g) THEN Panic("Unable to get sector info")
                               ELSE LET ss == get_sector_size(h, device)
                                    IN  IF IsPanic(ss) THEN ss
                                        ELSE IF IsErr(ss) THEN Panic("Unable to get device size")
                                        ELSE LET size == MulU64(g.val.sectors, ss.val, checks)
                                             IN  IF IsPanic(size) THEN size
                                                 ELSE Ok([name |-> part,
                                                          start |-> g.val.start,
                                                          end |-> g.val.end,
                                                          sectors |-> g.val.sectors,
                                                          size |-> size.val,
                                                          uuid |-> uuid,
                                                          part_type |-> part_type])

(***************************************************************************)
(* Hosts the program is run on.                                            *)
(***************************************************************************)
sda == <<"s", "d", "a">>
sdb == <<"s", "d", "b">>
loop0 == loop \o <<"0">>
sda1 == sda \o <<"1">>
sda2 == sda \o <<"2">>
sdb1 == sdb \o <<"1">>
queue == <<"q", "u", "e", "u", "e">>
sdaloop1 == sda \o loop \o <<"1">>
sda_stat == sda \o <<"_", "s", "t", "a", "t">>

DeviceNames == {sda, sdb, loop0}
PartNames == {sda1, sda2, sdb1}

DigitChar(d) == <<"0", "1", "2", "3", "4", "5", "6", "7", "8", "9">>[d + 1]

\* The decimal text of n.
RECURSIVE DecimalText(_)
DecimalText(n) ==
    IF n < 10 THEN <<DigitChar(n)>>
    ELSE DecimalText(n \div 10) \o <<DigitChar(n % 10)>>

\* An attribute file as the kernel writes it: the number and a newline.
Attr(n) == File(DecimalText(n) \o <<"\n">>)

DevLink(name) == <<".", ".", "/", ".", ".", "/">> \o name

Zeros8 == [k \in 0..(GptSigLen - 1) |-> 0]
EFI_PARX == [EFI_PART EXCEPT ![GptSigLen - 1] = 88]
XFI_PART == [EFI_PART EXCEPT ![0] = 88]

Image(len, type, sig0, sig1, hdr) ==
    [openable |-> TRUE, seekable |-> TRUE, len |-> len, type |-> type,
     sig0 |-> sig0, sig1 |-> sig1, hdr |-> hdr]

MbrImage == Image(2 * SectorLen, 131, SigByte0, SigByte1, Zeros8)
GptImage == Image(2 * SectorLen, ProtectiveType, SigByte0, SigByte1, EFI_PART)

Images ==
    { Image(2 * SectorLen, t, s[1], s[2], hd) :
        t \in {0, 131, ProtectiveType},
        s \in {<<SigByte0, SigByte1>>, <<SigByte0, 0>>, <<0, SigByte1>>,
               <<SigByte1, SigByte0>>, <<0, 0>>},
        hd \in {EFI_PART, EFI_PARX, XFI_PART, Zeros8} }
    \cup { [GptImage EXCEPT !.openable = FALSE],
           [GptImage EXCEPT !.seekable = FALSE],
           [GptImage EXCEPT !.len = SectorLen],
           [GptImage EXCEPT !.len = SectorLen + GptSigLen - 1],
           [GptImage EXCEPT !.len = SectorLen + GptSigLen],
           [MbrImage EXCEPT !.len = SectorLen],
           [MbrImage EXCEPT !.len = SectorLen - 1],
           [MbrImage EXCEPT !.len = 0] }

Unparsable == File(<<"x", "\n">>)

LbsFiles == {Attr(512), Attr(4096), Attr(3), Attr(0), Unparsable, MissingFile}
SizeFiles ==
    {Attr(100), Attr(0), Attr(U64Max), Attr(2^(WordBits - 1)), Attr(U64Max + 1),
     File(<<>>), MissingFile}
IoFiles == {Attr(0), Attr(64), Attr(U32Max + 1), Unparsable, IoErrFile}
StartFiles == {Attr(8), Attr(0), Attr(1), Attr(U64Max), Unparsable, MissingFile}
CountFiles == {Attr(16), Attr(0), Attr(1), Attr(U64Max), Unparsable, MissingFile}
TypeFiles ==
    {Attr(1), File(<<"1">>), File(<<"\n">>), File(<<" ", "\n">>), File(<<>>),
     MissingFile, NoPermFile, IoErrFile}

HealthyDev(entries) ==
    [isDir |-> TRUE, readable |-> TRUE, entries |-> entries,
     model |-> File(<<"Q", "E", "M", "U", " ", "\n">>),
     image |-> MbrImage, size |-> Attr(100), lbs |-> Attr(512), io |-> Attr(0)]

HealthyPart(start, count, number) ==
    [isDir |-> TRUE, start |-> Attr(start), size |-> Attr(count),
     partition |-> Attr(number)]

\* An entry of a device directory that is a plain file, not a partition.
NotAPartition ==
    [isDir |-> FALSE, start |-> MissingFile, size |-> MissingFile,
     partition |-> MissingFile]

IdA == <<"a", "t", "a", "-", "W", "D", "-", "S", "1">>
IdB == <<"a", "t", "a", "-", "W", "D", "-", "S", "2">>
IdPlain == <<"S", "3">>
IdAPart1 == IdA \o <<"-", "p", "a", "r", "t", "1">>
UuidA1 == <<"1", "f", "-", "a", "1">>
UuidB1 == <<"2", "e", "-", "b", "1">>

BaseHost ==
    [sysBlock |-> Dir(<<sda, sdb>>),
     dev |-> (sda :> HealthyDev(<<queue, sda1, sda2>>)
              @@ sdb :> [HealthyDev(<<sdb1, queue>>) EXCEPT !.image = GptImage]
              @@ loop0 :> HealthyDev(<<queue>>)),
     part |-> (sda1 :> HealthyPart(8, 16, 1)
               @@ sda2 :> HealthyPart(24, 32, 2)
               @@ sdb1 :> HealthyPart(8, 64, 1)
               @@ sda_stat :> NotAPartition),
     byId |-> Dir(<<Link(IdA, DevLink(sda)), Link(IdB, DevLink(sdb))>>),
     byUuid |-> Dir(<<Link(UuidA1, DevLink(sda1)), Link(UuidB1, DevLink(sdb1))>>)]

ByIdDirs ==
    {NoDir, UnreadableDir, Dir(<<>>),
     Dir(<<Link(IdB, DevLink(sdb))>>),
     Dir(<<Link(IdB, DevLink(sdb)), Link(IdPlain, DevLink(sda))>>),
     Dir(<<Link(IdAPart1, DevLink(sda1)), Link(IdA, DevLink(sda)), Link(IdB, DevLink(sdb))>>),
     Dir(<<[Link(IdA, DevLink(sda)) EXCEPT !.utf8 = FALSE], Link(IdB, DevLink(sdb))>>),
     Dir(<<[Link(IdA, DevLink(sda)) EXCEPT !.isLink = FALSE], Link(IdB, DevLink(sdb))>>)}

ByUuidDirs ==
    {NoDir, UnreadableDir, Dir(<<>>),
     Dir(<<Link(UuidB1, DevLink(sdb1))>>),
     Dir(<<Link(UuidB1, DevLink(sdb)), Link(UuidA1, DevLink(sda))>>)}

SysBlockDirs ==
    {Dir(<<sdb, sda>>), Dir(<<loop0, sda, sdb>>), Dir(<<sda>>), Dir(<<>>), UnreadableDir}

SdaDirs ==
    {[BaseHost.dev[sda] EXCEPT !.isDir = FALSE],
     [BaseHost.dev[sda] EXCEPT !.readable = FALSE],
     [BaseHost.dev[sda] EXCEPT !.entries = <<>>],
     [BaseHost.dev[sda] EXCEPT !.entries = <<sda2, queue, sda1>>],
     [BaseHost.dev[sda] EXCEPT !.entries = <<queue, sda1, sda2, sda_stat>>],
     [BaseHost.dev[sda] EXCEPT !.model = MissingFile]}

\* A host with a loop device in /sys/block and a loop-named entry in the
\* directory of sda.
LoopHost ==
    [BaseHost EXCEPT !.sysBlock = Dir(<<loop0, sda, sdb>>),
                     !.dev[sda].entries = <<sdaloop1, queue, sda1, sda2>>]

\* The hosts: the base host with one aspect of it varied.
Hosts ==
    {LoopHost} \cup
    { [BaseHost EXCEPT !.dev[sda].image = i] : i \in Images }
    \cup { [BaseHost EXCEPT !.dev[sda].size = z, !.dev[sda].lbs = l] :
             z \in SizeFiles, l \in LbsFiles }
    \cup { [BaseHost EXCEPT !.dev[sda].io = f] : f \in IoFiles }
    \cup { [BaseHost EXCEPT !.byId = a, !.byUuid = u] : a \in ByIdDirs, u \in ByUuidDirs }
    \cup { [BaseHost EXCEPT !.sysBlock = d] : d \in SysBlockDirs }
    \cup { [BaseHost EXCEPT !.dev[sda] = d] : d \in SdaDirs }
    \cup { [BaseHost EXCEPT !.part[sda1].start = a, !.part[sda1].size = c] :
             a \in StartFiles, c \in CountFiles }
    \cup { [BaseHost EXCEPT !.part[sda1].partition = t] : t \in TypeFiles }
    \cup { [BaseHost EXCEPT !.part[sda2].isDir = FALSE] }

(***************************************************************************)
(* The program: the aggregator calls get_block_devices and then Disk::new  *)
(* for each name in turn; Disk::new runs its calls in source order.  The   *)
(* host may change an attribute between two calls.                         *)
(***************************************************************************)
VARIABLES
    host,            \* the host's files, directories and raw devices
    overflowChecks,  \* the build: TRUE with overflow checks, FALSE without
    hostChanges,     \* how often the host changed during the run
    pc,              \* where the program is
    todo,            \* the device names still to construct
    device,          \* the argument of the running Disk::new
    disk,            \* the locals of the running Disk::new
    parts,           \* the partition names Disk::new has still to map
    labelCall,       \* outcome of the latest detect_disklabel call, and its device
    results,         \* what each finished Disk::new returned, in order
    panic            \* the message of the panic that ended the process

vars == <<host, overflowChecks, hostChanges, pc, todo, device, disk, parts,
          labelCall, results, panic>>

NoDevice == <<>>
NoCall == [kind |-> "NoCall"]
NoPanic == "none"

\* The locals of a Disk::new that has bound none of them yet; filled names
\* the locals bound so far.
NoDisk ==
    [name |-> <<>>, uuid |-> <<>>, model |-> <<>>, disklabel_type |-> "",
     size |-> 0, sector_size |-> 0, n_sectors |-> 0, io_size |-> 0,
     partitions |-> <<>>, filled |-> {}]

Init ==
    /\ host \in Hosts
    /\ overflowChecks \in BOOLEAN
    /\ hostChanges = 0
    /\ pc = "start"
    /\ todo = <<>>
    /\ device = NoDevice
    /\ disk = NoDisk
    /\ parts = <<>>
    /\ labelCall = NoCall
    /\ results = <<>>
    /\ panic = NoPanic

\* A panic on the only thread: the process ends, nothing is returned.
Abort(msg) ==
    /\ pc' = "panicked"
    /\ panic' = msg

\* The aggregator: list the devices.
Enumerate ==
    /\ pc = "start"
    /\ todo' = get_block_devices(host)
    /\ pc' = "next"
    /\ UNCHANGED <<host, overflowChecks, hostChanges, device, disk, parts,
                   labelCall, results, panic>>

\* The aggregator: call Disk::new for the next name, or finish.
NextDevice ==
    /\ pc = "next"
    /\ IF todo = <<>>
       THEN /\ pc' = "done"
            /\ UNCHANGED <<todo, device, disk>>
       ELSE /\ device' = Head(todo)
            /\ todo' = Tail(todo)
            /\ disk' = NoDisk
            /\ pc' = "is_dir"
    /\ UNCHANGED <<host, overflowChecks, hostChanges, parts, labelCall,
                   results, panic>>

\* Disk::new: the device directory check.
DiskIsDir ==
    /\ pc = "is_dir"
    /\ IF ~host.dev[device].isDir
       THEN /\ results' = Append(results, [device |-> device, result |-> Err("NotFound")])
            /\ pc' = "next"
       ELSE /\ pc' = "uuid"
            /\ UNCHANGED results
    /\ UNCHANGED <<host, overflowChecks, hostChanges, todo, device, disk, parts,
                   labelCall, panic>>

\* Disk::new: get_device_uuid(device).expect(..)
DiskUuid ==
    /\ pc = "uuid"
    /\ LET r == get_device_uuid(host, device)
       IN  IF IsOk(r)
           THEN /\ disk' = [disk EXCEPT !.uuid = r.val, !.filled = @ \cup {"uuid"}]
                /\ pc' = "model"
                /\ UNCHANGED panic
           ELSE /\ Abort(IF IsPanic(r) THEN r.site ELSE "Unable to get device UUID")
                /\ UNCHANGED disk
    /\ UNCHANGED <<host, overflowChecks, hostChanges, todo, device, parts,
                   labelCall, results>>

\* Disk::new: get_device_model(device).expect(..)
DiskModel ==
    /\ pc = "model"
    /\ LET r == get_device_model(host, device)
       IN  IF IsOk(r)
           THEN /\ disk' = [disk EXCEPT !.model = r.val, !.filled = @ \cup {"model"}]
                /\ pc' = "label"
                /\ UNCHANGED panic
           ELSE /\ Abort(IF IsPanic(r) THEN r.site ELSE "Unable to get device model")
                /\ UNCHANGED disk
    /\ UNCHANGED <<host, overflowChecks, hostChanges, todo, device, parts,
                   labelCall, results>>

\* Disk::new: detect_disklabel(device).expect(..).to_string()
DiskLabel ==
    /\ pc = "label"
    /\ LET r == detect_disklabel(host, device)
       IN  /\ labelCall' = r @@ [device |-> device]
           /\ IF IsOk(r)
              THEN /\ disk' = [disk EXCEPT !.disklabel_type = r.val, !.filled = @ \cup {"disklabel_type"}]
                   /\ pc' = "capacity"
                   /\ UNCHANGED panic
              ELSE /\ Abort(IF IsPanic(r) THEN r.site ELSE "Unable to get disk label type")
                   /\ UNCHANGED disk
    /\ UNCHANGED <<host, overflowChecks, hostChanges, todo, device, parts, results>>

\* Disk::new: read_capacity(device).expect(..)
DiskCapacity ==
    /\ pc = "capacity"
    /\ LET r == read_capacity(host, device, overflowChecks)
       IN  IF IsOk(r)
           THEN /\ disk' = [disk EXCEPT !.size = r.val, !.filled = @ \cup {"size"}]
                /\ pc' = "sector_size"
                /\ UNCHANGED panic
           ELSE /\ Abort(IF IsPanic(r) THEN r.site ELSE "Unable to get capacity")
                /\ UNCHANGED disk
    /\ UNCHANGED <<host, overflowChecks, hostChanges, todo, device, parts,
                   labelCall, results>>

\* Disk::new: get_sector_size(device).expect(..), then size / sector_size
DiskSectorSize ==
    /\ pc = "sector_size"
    /\ LET r == get_sector_size(host, device)
       IN  IF IsOk(r) /\ r.val # 0
           THEN /\ disk' = [disk EXCEPT !.sector_size = r.val,
                                        !.n_sectors = disk.size \div r.val,
                                        !.filled = @ \cup {"sector_size", "n_sectors"}]
                /\ pc' = "io_size"
                /\ UNCHANGED panic
           ELSE /\ Abort(IF IsPanic(r) THEN r.site
                         ELSE IF IsErr(r) THEN "Unable to get sector size"
                         ELSE "attempt to divide by zero")
                /\ UNCHANGED disk
    /\ UNCHANGED <<host, overflowChecks, hostChanges, todo, device, parts,
                   labelCall, results>>

\* Disk::new: get_io_size(device).expect(..)
DiskIoSize ==
    /\ pc = "io_size"
    /\ LET r == get_io_size(host, device)
       IN  IF IsOk(r)
           THEN /\ disk' = [disk EXCEPT !.io_size = r.val, !.filled = @ \cup {"io_size"}]
                /\ pc' = "partitions"
                /\ UNCHANGED panic
           ELSE /\ Abort(IF IsPanic(r) THEN r.site ELSE "Unable to get io size")
                /\ UNCHANGED disk
    /\ UNCHANGED <<host, overflowChecks, hostChanges, todo, device, parts,
                   labelCall, results>>

\* Disk::new: get_partitions(device) filtered of the names that contain "loop"
DiskPartitions ==
    /\ pc = "partitions"
    /\ LET NotLoop(part) == ~Contains(part, loop)
       IN  parts' = SelectSeq(get_partitions(host, device), NotLoop)
    /\ pc' = "partition"
    /\ UNCHANGED <<host, overflowChecks, hostChanges, todo, device, disk,
                   labelCall, results, panic>>

\* Disk::new: one step of map(Partition::new).collect().expect(..), and the
\* Ok(Disk { .. }) that ends the call when the names are used up.
DiskPartition ==
    /\ pc = "partition"
    /\ IF parts = <<>>
       THEN /\ results' = Append(results,
                [device |-> device, result |-> Ok([disk EXCEPT !.name = device,
                                                            !.filled = @ \cup {"name", "partitions"}])])
            /\ pc' = "next"
            /\ UNCHANGED <<disk, parts, panic>>
       ELSE LET r == PartitionNew(host, device, Head(parts), overflowChecks)
            IN  IF IsOk(r)
                THEN /\ disk' = [disk EXCEPT !.partitions = Append(@, r.val)]
                     /\ parts' = Tail(parts)
                     /\ UNCHANGED <<pc, results, panic>>
                ELSE /\ Abort(IF IsPanic(r) THEN r.site ELSE "Unable to get partitions")
                     /\ UNCHANGED <<disk, parts, results>>
    /\ UNCHANGED <<host, overflowChecks, hostChanges, todo, device, labelCall>>

\* The host: the logical block size attribute of a listed device changes.
HostChange ==
    /\ pc \notin {"start", "done", "panicked"}
    /\ hostChanges < MaxHostChanges
    /\ \E d \in {sda, sdb}, f \in LbsFiles :
          /\ f # host.dev[d].lbs
          /\ host' = [host EXCEPT !.dev[d].lbs = f]
    /\ hostChanges' = hostChanges + 1
    /\ UNCHANGED <<overflowChecks, pc, todo, device, disk, parts, labelCall,
                   results, panic>>

Next ==
    \/ Enumerate
    \/ NextDevice
    \/ DiskIsDir
    \/ DiskUuid
    \/ DiskModel
    \/ DiskLabel
    \/ DiskCapacity
    \/ DiskSectorSize
    \/ DiskIoSize
    \/ DiskPartitions
    \/ DiskPartition
    \/ HostChange

Spec == Init /\ [][Next]_vars

(***************************************************************************)
(* Properties.                                                             *)
(***************************************************************************)
\* The image the latest detect_disklabel call read (raw devices do not change
\* during a run).
LabelImage == host.dev[labelCall.device].image

FirstSectorRead(img) == img.openable /\ img.len >= SectorLen

SignatureValid(img) == img.sig0 = SigByte0 /\ img.sig1 = SigByte1

HeaderReadable(img) == img.seekable /\ img.len >= GptOffset + GptSigLen

\* The Ok(Disk) values returned so far.
ReturnedDisks == {results[i].result.val : i \in {j \in 1..Len(results) : IsOk(results[j].result)}}

\* The Partition values constructed so far: those of returned disks and those
\* of the running Disk::new.
PartitionsOf(d) == {d.partitions[i] : i \in 1..Len(d.partitions)}

ConstructedPartitions ==
    PartitionsOf(disk) \cup UNION {PartitionsOf(d) : d \in ReturnedDisks}

\* C1: whenever detect_disklabel has read a first sector whose bytes 510-511
\* are not {0x55, 0xAA}, it returned the InvalidData error, not a
\* classification, whatever byte 450 and the bytes at 512 are.
C1_InvalidSignatureIsError ==
    (labelCall # NoCall /\ FirstSectorRead(LabelImage) /\ ~SignatureValid(LabelImage))
        => (labelCall.kind = "Err" /\ labelCall.err = "InvalidData")

\* C1 witness: a sector with a half-right signature, the protective marker and
\* a true GPT header behind it was classified as an error.
C1_Witness ==
    /\ labelCall # NoCall
    /\ labelCall.kind = "Err"
    /\ LabelImage.sig0 = SigByte0
    /\ LabelImage.sig1 # SigByte1
    /\ LabelImage.type = ProtectiveType
    /\ LabelImage.hdr = EFI_PART

\* C2: for a readable device with a valid boot signature, detect_disklabel
\* returns GPT exactly when byte 450 is 0xEE and the 8 bytes at 512 are
\* "EFI PART", and MBR (no error, never Unknown) in every other such case.
C2_GptIffMarkerAndHeader ==
    (/\ labelCall # NoCall
     /\ FirstSectorRead(LabelImage)
     /\ SignatureValid(LabelImage)
     /\ (LabelImage.type = ProtectiveType => HeaderReadable(LabelImage)))
        => /\ labelCall.kind = "Ok"
           /\ labelCall.val =
                 IF LabelImage.type = ProtectiveType /\ LabelImage.hdr = EFI_PART
                 THEN "GPT" ELSE "MBR"

\* C2 witness: one run classified a protective MBR followed by 8 non-matching
\* bytes as MBR and a protective MBR followed by "EFI PART" as GPT.
C2_Witness ==
    /\ \E d \in ReturnedDisks :
          /\ d.disklabel_type = "MBR"
          /\ host.dev[d.name].image.type = ProtectiveType
          /\ host.dev[d.name].image.hdr = EFI_PARX
    /\ \E d \in ReturnedDisks :
          /\ d.disklabel_type = "GPT"
          /\ host.dev[d.name].image.type = ProtectiveType
          /\ host.dev[d.name].image.hdr = EFI_PART

\* C3: detect_disklabel always returns a classification or an error value to
\* its caller; when the device cannot be opened, the first sector cannot be
\* read in full, or the marker is present and the seek or the 8-byte read
\* fails, the caller receives an error and the process goes on.
C3_ReadFailureIsReturnedError ==
    labelCall # NoCall =>
        /\ labelCall.kind \in {"Ok", "Err"}
        /\ (\/ ~FirstSectorRead(LabelImage)
            \/ /\ SignatureValid(LabelImage)
               /\ LabelImage.type = ProtectiveType
               /\ ~HeaderReadable(LabelImage))
              => labelCall.kind = "Err"

\* C4: every Disk that Disk::new returns on a host whose attributes stay as
\* they are has size = n_sectors * sector_size.
C4_SizeIsSectorsTimesSectorSize ==
    hostChanges = 0 =>
        \A d \in ReturnedDisks : d.size = d.n_sectors * d.sector_size

\* C5: every Partition constructed has end = start + sectors - 1, start >= 0,
\* and sectors equal to the count the kernel reports for it.
C5_EndIsStartPlusSectorsMinusOne ==
    \A p \in ConstructedPartitions :
        /\ p.end = p.start + p.sectors - 1
        /\ p.start >= 0
        /\ ParseUnsigned(Trim(host.part[p.name].size.text), U64Max) = Ok(p.sectors)

\* C6: in every Disk returned, each Partition's size is its sectors times that
\* Disk's sector_size field (in u64 arithmetic), whatever the attribute reads
\* during the construction returned.
C6_PartitionSizeUsesDiskSectorSize ==
    \A d \in ReturnedDisks :
        \A p \in PartitionsOf(d) : p.size = (p.sectors * d.sector_size) % U64Mod

\* C7: when no by-id and no by-uuid entry matches the device (get_device_uuid
\* yields NotFound), Disk::new is not aborted at the identity step.
C7_IdentityFailureNeverAborts ==
    ~(/\ pc = "panicked"
      /\ "uuid" \notin disk.filled
      /\ get_device_uuid(host, device) = Err("NotFound"))

StructuralFields ==
    {"name", "disklabel_type", "size", "sector_size", "n_sectors", "io_size", "partitions"}

\* C8: every Disk::new call ends with Ok(Disk), every structural field read,
\* or with an Err returned to the caller: a structural failure (any failure
\* once uuid and model are resolved) never terminates the process.
C8_StructuralFailureIsReturnedErr ==
    /\ ~(pc = "panicked" /\ {"uuid", "model"} \subseteq disk.filled)
    /\ \A d \in ReturnedDisks : StructuralFields \subseteq d.filled

\* Disk::new(d) succeeds on host h with every lookup it makes.
RECURSIVE AllPartitionsOk(_, _, _, _)
AllPartitionsOk(h, d, names, checks) ==
    names = <<>> \/ (/\ IsOk(PartitionNew(h, d, Head(names), checks))
                     /\ AllPartitionsOk(h, d, Tail(names), checks))

Faultless(h, d, checks) ==
    /\ h.dev[d].isDir
    /\ IsOk(get_device_uuid(h, d))
    /\ IsOk(get_device_model(h, d))
    /\ IsOk(detect_disklabel(h, d))
    /\ IsOk(read_capacity(h, d, checks))
    /\ IsOk(get_sector_size(h, d))
    /\ get_sector_size(h, d).val # 0
    /\ IsOk(get_io_size(h, d))
    /\ LET NotLoop(part) == ~Contains(part, loop)
       IN  AllPartitionsOk(h, d, SelectSeq(get_partitions(h, d), NotLoop), checks)

\* C9: once the program has ended on an unchanging host, every device that
\* get_block_devices lists and that has no fault of its own was reported as
\* a Disk, whatever happened to the other devices.
C9_FaultlessDevicesAreReported ==
    (pc \in {"done", "panicked"} /\ hostChanges = 0) =>
        \A i \in 1..Len(get_block_devices(host)) :
            LET d == get_block_devices(host)[i]
            IN  Faultless(host, d, overflowChecks) =>
                    \E j \in 1..Len(results) :
                        results[j].device = d /\ IsOk(results[j].result)

\* C10: no Partition is constructed with an empty part_type or with the
\* substituted default: an attribute that yields an empty value is an error.
C10_PartitionTypeNeverEmpty ==
    \A p \in ConstructedPartitions :
        p.part_type # <<>> /\ p.part_type # UnknownPartitionType

\* C11 (read_capacity): on a host whose attributes stay as they are,
\* read_capacity returns Ok only when the device's own logical_block_size was
\* read and parsed: a capacity is never computed from a substituted default.
C11_CapacityUsesDeviceSectorSize ==
    (pc = "sector_size" /\ "size" \in disk.filled /\ hostChanges = 0)
        => IsOk(get_sector_size(host, device))

\* The last component of a path.
LastComponent(path) ==
    LET cut == {i \in 1..Len(path) : path[i] = "/"}
        from == IF cut = {} THEN 1 ELSE 1 + CHOOSE i \in cut : \A j \in cut : j <= i
    IN  SubSeq(path, from, Len(path))

\* The text after the last hyphen of a link name, all of it when it has none.
AfterLastHyphen(name) ==
    LET cut == {i \in 1..Len(name) : name[i] = "-"}
        from == IF cut = {} THEN 1 ELSE 1 + CHOOSE i \in cut : \A j \in cut : j <= i
    IN  SubSeq(name, from, Len(name))

\* The entries of a directory, in listing order, that are named links to the
\* device itself.
Referencing(dir, dev) ==
    LET Refers(e) == e.isLink /\ e.utf8 /\ LastComponent(e.target) = dev
    IN  IF dir.exists /\ dir.readable THEN SelectSeq(dir.entries, Refers) ELSE <<>>

\* What identity resolution with by-id precedence yields for the device.
ResolvedIdentity(h, dev) ==
    IF Referencing(h.byId, dev) # <<>>
    THEN Ok(AfterLastHyphen(Referencing(h.byId, dev)[1].name))
    ELSE IF Referencing(h.byUuid, dev) # <<>>
    THEN Ok(Referencing(h.byUuid, dev)[1].name)
    ELSE Err("NotFound")

BeginsWithLoop(name) ==
    Len(name) >= 4 /\ <<name[1], name[2], name[3], name[4]>> = <<"l", "o", "o", "p">>

HasLoop(name) ==
    \E i \in 1..(Len(name) - 3) :
        <<name[i], name[i + 1], name[i + 2], name[i + 3]>> = <<"l", "o", "o", "p">>

Elements(seq) == {seq[i] : i \in 1..Len(seq)}

\* C13: for a /sys/block listing, get_block_devices returns exactly the
\* entries whose names do not begin with "loop", so no loop device is ever
\* constructed; and no Partition of a constructed Disk has a name containing
\* "loop".
C13_LoopDevicesExcluded ==
    /\ (pc = "next" /\ device = NoDevice /\ host.sysBlock.readable)
          => Elements(todo) = {n \in Elements(host.sysBlock.entries) : ~BeginsWithLoop(n)}
    /\ \A n \in Elements(todo) \cup {results[i].device : i \in 1..Len(results)} :
          ~BeginsWithLoop(n)
    /\ device # NoDevice => ~BeginsWithLoop(device)
    /\ \A n \in Elements(parts) : ~HasLoop(n)
    /\ \A p \in ConstructedPartitions : ~HasLoop(p.name)

\* C13 witness: on a host that lists loop0 and has a loop-named entry under
\* sda, sda was returned as a Disk with its two partitions.
C13_Witness ==
    /\ loop0 \in Elements(host.sysBlock.entries)
    /\ sdaloop1 \in Elements(host.dev[sda].entries)
    /\ \E d \in ReturnedDisks :
          d.name = sda /\ {p.name : p \in PartitionsOf(d)} = {sda1, sda2}

NvmeStyle(dev) == StartsWith(dev, <<"n", "v", "m", "e">>)

\* name ends in "p" followed by one or more decimal digits.
EndsInPDigits(name) ==
    \E i \in 1..(Len(name) - 1) :
        name[i] = "p" /\ \A j \in (i + 1)..Len(name) : IsDigit(name[j])

\* name is a partition of dev: an entry of the device directory other than
\* the device, ending in p<digits> under an NVMe-style device and in a
\* decimal digit under any other.
IsPartitionName(h, dev, name) ==
    /\ name \in Elements(h.dev[dev].entries)
    /\ name # dev
    /\ IF NvmeStyle(dev) THEN EndsInPDigits(name)
       ELSE name # <<>> /\ IsDigit(name[Len(name)])

\* C14: every name that get_partitions(device) returned, and that Disk::new
\* goes on to map, is a partition name of the device.
C14_OnlyPartitionNamesReturned ==
    \A n \in Elements(parts) : IsPartitionName(host, device, n)

TwoStageRead == <<"open", "read512", "seek512", "read8">>

\* C15: one detect_disklabel call opens the device once and reads sector 0
\* first; the seek to 512 and the 8-byte read follow, on that handle, only when
\* the boot signature is valid and byte 450 is 0xEE; with an invalid signature
\* or without the marker there is no second read; no operation is repeated.
C15_TwoStageReadOrder ==
    labelCall # NoCall =>
        /\ labelCall.ops # <<>>
        /\ labelCall.ops = SubSeq(TwoStageRead, 1, Len(labelCall.ops))
        /\ ("seek512" \in Elements(labelCall.ops) \/ "read8" \in Elements(labelCall.ops))
              => /\ FirstSectorRead(LabelImage)
                 /\ SignatureValid(LabelImage)
                 /\ LabelImage.type = ProtectiveType
        /\ (/\ FirstSectorRead(LabelImage)
            /\ (~SignatureValid(LabelImage) \/ LabelImage.type # ProtectiveType))
              => labelCall.ops = <<"open", "read512">>

\* C15 witness: a call that validated the signature, found the marker, made
\* the second read and did not find the GPT signature.
C15_Witness ==
    /\ labelCall # NoCall
    /\ labelCall.ops = TwoStageRead
    /\ labelCall.kind = "Ok"
    /\ labelCall.val = "MBR"
    /\ LabelImage.hdr = XFI_PART

====
